---- MODULE Spec2Model ----
(***************************************************************************)
(* A model of the CDJ track-load broadcaster (trackload-server.py): the    *)
(* segment parser, the pairing correlator, the load sequence detector,     *)
(* the load event extractor, the metadata resolver and the fan-out to the  *)
(* websocket handlers.  Bytes are the naturals 0..255 and a byte string is *)
(* a sequence of them; Python's None is modelled by the empty sequence     *)
(* where the code returns either None or a non-empty list.                 *)
(***************************************************************************)
EXTENDS Integers, Sequences, FiniteSets, TLC

\* ------------------------------------------------------------------ bounds

\* The capture is stopped once this many events have been handed to the loop.
MaxEvents == 2

\* At most this many websocket connections are ever accepted.
MaxClients == 2

\* Payloads filed by pair_packet in the runs that count them.
MaxPayloads == 6

\* ------------------------------------------------------- Python byte strings

\* The value of F at v, with v evaluated once (a local variable of the code).
Bind(v, F(_)) == CHOOSE y \in {F(x) : x \in {v}} : TRUE

Min(a, b) == IF a < b THEN a ELSE b

\* s[a:b] for 0 <= a, 0 <= b (Python clamps both ends to the length).
Slice(s, a, b) == SubSeq(s, a + 1, Min(b, Len(s)))

\* s[a:]
SliceFrom(s, a) == SubSeq(s, a + 1, Len(s))

\* bytes.find(sep): the lowest 0-based index where sep occurs, or -1.
Find(data, sep) ==
    Bind(data, LAMBDA s :
      Bind({i \in 0..(Len(s) - Len(sep)) : Slice(s, i, i + Len(sep)) = sep},
           LAMBDA hits :
             IF hits = {} THEN -1
             ELSE CHOOSE i \in hits : \A j \in hits : i <= j))

\* bytes.split(sep): left to right, non-overlapping occurrences.
RECURSIVE Split(_, _)
Split(data, sep) ==
    Bind(data, LAMBDA s :
      Bind(Find(s, sep), LAMBDA i :
        IF i = -1 THEN <<s>>
        ELSE <<Slice(s, 0, i)>>
             \o Bind(SliceFrom(s, i + Len(sep)),
                     LAMBDA rest : Split(rest, sep))))

\* bytes.rstrip(): drops trailing ASCII whitespace (\t \n \v \f \r and space).
RECURSIVE rstrip(_)
rstrip(data) ==
    Bind(data, LAMBDA s :
      IF s # <<>> /\ s[Len(s)] \in {9, 10, 11, 12, 13, 32}
      THEN rstrip(SubSeq(s, 1, Len(s) - 1))
      ELSE s)

\* bytes.decode('utf-16-be'): [ok, cps]; ok is FALSE where Python raises
\* UnicodeDecodeError (a truncated code unit or an unpaired surrogate).
RECURSIVE utf16_units(_)
utf16_units(units) ==
    Bind(units, LAMBDA u :
      IF u = <<>> THEN [ok |-> TRUE, cps |-> <<>>]
      ELSE IF u[1] >= 55296 /\ u[1] <= 56319
           THEN IF Len(u) >= 2 /\ u[2] >= 56320 /\ u[2] <= 57343
                THEN Bind(utf16_units(SubSeq(u, 3, Len(u))), LAMBDA rest :
                       [ok |-> rest.ok,
                        cps |-> <<65536 + ((u[1] - 55296) * 1024)
                                        + (u[2] - 56320)>> \o rest.cps])
                ELSE [ok |-> FALSE, cps |-> <<>>]
           ELSE IF u[1] >= 56320 /\ u[1] <= 57343
                THEN [ok |-> FALSE, cps |-> <<>>]
                ELSE Bind(utf16_units(Tail(u)), LAMBDA rest :
                       [ok |-> rest.ok, cps |-> <<u[1]>> \o rest.cps]))

decode_utf16be(data) ==
    Bind(data, LAMBDA b :
      Bind(utf16_units([k \in 1..(Len(b) \div 2) |->
                          (b[2 * k - 1] * 256) + b[2 * k]]),
           LAMBDA r :
             IF Len(b) % 2 = 1 THEN [ok |-> FALSE, cps |-> r.cps] ELSE r))

\* str.encode('utf-8') of one code point.
utf8_of(cp) ==
    IF cp < 128 THEN <<cp>>
    ELSE IF cp < 2048 THEN <<192 + (cp \div 64), 128 + (cp % 64)>>
    ELSE IF cp < 65536
         THEN <<224 + (cp \div 4096), 128 + ((cp \div 64) % 64),
                128 + (cp % 64)>>
         ELSE <<240 + (cp \div 262144), 128 + ((cp \div 4096) % 64),
                128 + ((cp \div 64) % 64), 128 + (cp % 64)>>

RECURSIVE encode_utf8(_)
encode_utf8(text) ==
    Bind(text, LAMBDA cps :
      IF cps = <<>> THEN <<>> ELSE utf8_of(cps[1]) \o encode_utf8(Tail(cps)))

\* ------------------------------------------------------------ Segment parser

\* This header starts each "section" of a packet: 11 87 23 49 ae 11.
CDJ_SECTION_MARKER == <<17, 135, 35, 73, 174, 17>>

\* Python's None where the code returns None or a non-empty list.
None == <<>>

PacketPart(identifier, command, data) ==
    [identifier |-> identifier, command |-> command, data |-> data]

PacketPair(identifier, first, second) ==
    [identifier |-> identifier, first |-> first, second |-> second]

\* What pair_packet returns when it returns None.
NoPair == PacketPair(<<>>, None, None)

\* has_marker without the test: every payload is split on the marker.
has_marker_unchecked(data) == TRUE

\* The marker test of parse_data: data[:6] != CDJ_SECTION_MARKER.
has_marker(data) == Slice(data, 0, 6) = CDJ_SECTION_MARKER

\* parse_data that validates the length of each piece and ignores a payload
\* holding a piece shorter than the 10 bytes of a header.
parse_data_strict(data) ==
    IF ~has_marker(data) THEN None
    ELSE Bind(Tail(Split(data, CDJ_SECTION_MARKER)), LAMBDA packet_items :
           IF packet_items = <<>> THEN None
           ELSE IF \E k \in 1..Len(packet_items) : Len(packet_items[k]) < 10
           THEN None
           ELSE [k \in 1..Len(packet_items) |->
                   PacketPart(Slice(packet_items[k], 0, 4),
                              Slice(packet_items[k], 5, 9),
                              SliceFrom(packet_items[k], 10))])

parse_data(data) ==
    IF ~has_marker(data) THEN None
    ELSE Bind(Tail(Split(data, CDJ_SECTION_MARKER)), LAMBDA packet_items :
           IF packet_items = <<>> THEN None
           ELSE [k \in 1..Len(packet_items) |->
                   PacketPart(Slice(packet_items[k], 0, 4),
                              Slice(packet_items[k], 5, 9),
                              SliceFrom(packet_items[k], 10))])

\* ------------------------------------------------------------- captured input

Zeros(n) == [i \in 1..n |-> 0]

\* One section of a packet: the marker, the 4-byte identifier, a separator byte,
\* the 4-byte command, a separator byte and the data.
Section(identifier, command, data) ==
    CDJ_SECTION_MARKER \o identifier \o <<16>> \o command \o <<20>> \o data

Id(n) == <<0, 0, 0, n>>

\* A request whose data satisfies the first command state.
LoadRequest(id) == Section(id, <<18, 20, 15, 4>>, Zeros(18) \o <<3, 4, 1>>)

\* A request with the command of the second and fourth command states; its
\* data carries the deck at offset 17.
DataRequest(id, deck) == Section(id, <<48, 0, 15, 6>>, Zeros(17) \o <<deck>>)

\* The same command with data too short to hold offset 17.
ShortRequest(id) == Section(id, <<48, 0, 15, 6>>, Zeros(5))

\* A request that satisfies the first command state and carries the command of
\* the second and fourth.
BothRequest(id, deck) ==
    Section(id, <<48, 0, 15, 6>>, Zeros(17) \o <<deck>> \o <<3, 4, 1>>)

\* A request with the command of the third command state.
UnsureRequest(id) == Section(id, <<33, 2, 15, 2>>, <<>>)

\* A six-section response whose sixth section holds the path at offset 36,
\* followed by the terminator 00 00 11.
PathResponse(id, path16) ==
    LET menu == Section(id, <<65, 1, 15, 12>>, <<>>)
    IN  Section(id, <<64, 1, 15, 2>>, <<>>) \o menu \o menu \o menu \o menu
        \o Section(id, <<65, 1, 15, 12>>,
                   Zeros(36) \o path16 \o <<0, 0, 17>> \o <<0, 0>>)

\* A six-section response whose sixth section has data that ends before
\* offset 36.
ShortPathResponse(id) ==
    LET menu == Section(id, <<65, 1, 15, 12>>, <<>>)
    IN  Section(id, <<64, 1, 15, 2>>, <<>>) \o menu \o menu \o menu \o menu
        \o Section(id, <<65, 1, 15, 12>>, Zeros(5))

\* "ab " in UTF-16-BE, and a path cut in the middle of a code unit.
PathAB == <<0, 97, 0, 98, 0, 32>>
PathOdd == <<0, 97, 1>>

Raw(load) == [kind |-> "Raw", load |-> load]

\* The requests of the canonical track-load exchange, by detector state.
CanonicalRequest(k, id) ==
    CASE k = 0 -> LoadRequest(id)
      [] k = 1 -> DataRequest(id, 1)
      [] k = 2 -> UnsureRequest(id)
      [] k = 3 -> DataRequest(id, 1)

Identifiers == {Id(1), Id(2)}

ProtocolLoads ==
    UNION {{LoadRequest(id), DataRequest(id, 1), UnsureRequest(id),
            PathResponse(id, PathAB)} : id \in Identifiers}
    \cup {ShortRequest(Id(1)), BothRequest(Id(2), 2),
          PathResponse(Id(2), PathOdd), ShortPathResponse(Id(1)),
          CDJ_SECTION_MARKER}

\* Payloads that do not start with the marker; one holds a whole section later.
ForeignLoads == {<<71, 69, 84>>, <<71, 69>> \o LoadRequest(Id(1))}

Loads == ProtocolLoads \cup ForeignLoads

\* The TCP payloads the capture hands to handle_packet.
Packets ==
    {Raw(l) : l \in Loads}
    \cup {[kind |-> "Padding", load |-> <<>>], [kind |-> "NoPayload", load |-> <<>>]}

\* Pieces for payloads that exercise the parser alone: pieces shorter than the
\* 10 bytes of a full header (cut inside the identifier, at the separator,
\* inside the command), a full header with and without data, and pieces made
\* of the start and of the end of the marker.
ParserPieces ==
    {<<>>, <<0, 0, 3>>, <<0, 0, 0, 3>>, <<0, 0, 0, 3, 16>>,
     <<0, 0, 0, 3, 16, 48, 0>>, <<0, 0, 0, 3, 16, 48, 0, 15, 6>>,
     <<0, 0, 0, 3, 16, 48, 0, 15, 6, 20>>,
     <<0, 0, 0, 3, 16, 48, 0, 15, 6, 20, 7, 8>>,
     <<17, 135, 35, 73, 174>>, <<135, 35, 73, 174, 17>>}

\* Payloads of one or two such pieces, each behind a marker, and the same
\* without the leading marker.
ParserLoads ==
    {CDJ_SECTION_MARKER \o p : p \in ParserPieces}
    \cup {CDJ_SECTION_MARKER \o p \o CDJ_SECTION_MARKER \o q :
            p \in ParserPieces, q \in ParserPieces}
    \cup {p \o CDJ_SECTION_MARKER \o q : p \in ParserPieces \ {<<>>},
                                        q \in ParserPieces}

\* parse_data on each payload of the capture, computed once.
parsed == [l \in Loads \cup ParserLoads |-> parse_data(l)]

\* -------------------------------------------------------- Pairing correlator

\* The dict initial_packets is a function whose domain is the pending
\* identifiers.
\* A store that replaces the whole dict by the one new entry.
dict_set_alone(d, key, val) == [k \in {key} |-> val]

dict_set(d, key, val) ==
    [k \in (DOMAIN d) \cup {key} |-> IF k = key THEN val ELSE d[k]]

\* A pop that empties the whole dict.
dict_pop_clear(d, key) == <<>>

dict_pop(d, key) == [k \in (DOMAIN d) \ {key} |-> d[k]]

\* pair_packet with the two groups of the pair exchanged.
pair_packet_swapped(table, data) ==
    LET parts == parsed[data]
    IN  IF parts = None THEN [ret |-> NoPair, table |-> table]
        ELSE LET identifier == parts[1].identifier
             IN  IF identifier \notin DOMAIN table
                 THEN [ret |-> NoPair,
                       table |-> dict_set(table, identifier, parts)]
                 ELSE [ret |-> PacketPair(identifier, parts, table[identifier]),
                       table |-> dict_pop(table, identifier)]

\* pair_packet(data) on the table initial_packets: the value returned and the
\* table it leaves.
pair_packet(table, data) ==
    LET parts == parsed[data]
    IN  IF parts = None THEN [ret |-> NoPair, table |-> table]
        ELSE LET identifier == parts[1].identifier
             IN  IF identifier \notin DOMAIN table
                 THEN [ret |-> NoPair,
                       table |-> dict_set(table, identifier, parts)]
                 ELSE [ret |-> PacketPair(identifier, table[identifier], parts),
                       table |-> dict_pop(table, identifier)]

\* ------------------------------------------------------ Load sequence detector

\* command_states whose third entry accepts any pair.
command_states_any_third(k, p) ==
    CASE k = 0 -> Slice(p[1].data, 18, 21) = <<3, 4, 1>>
      [] k = 1 -> p[1].command = <<48, 0, 15, 6>>
      [] k = 2 -> TRUE
      [] k = 3 -> p[1].command = <<48, 0, 15, 6>>

\* command_states[k] applied to the first group of a pair (k is 0-based).
command_states(k, p) ==
    CASE k = 0 -> Slice(p[1].data, 18, 21) = <<3, 4, 1>>
      [] k = 1 -> p[1].command = <<48, 0, 15, 6>>
      [] k = 2 -> p[1].command = <<33, 2, 15, 2>>
      [] k = 3 -> p[1].command = <<48, 0, 15, 6>>

\* len(self.command_states)
NumStates == 4

\* transition_packet without the reset on a mismatch.
transition_packet_no_reset(s, packet_pair) ==
    IF ~command_states(s, packet_pair.first)
    THEN [ret |-> FALSE, state |-> s]
    ELSE IF s + 1 = NumStates
         THEN [ret |-> TRUE, state |-> 0]
         ELSE [ret |-> FALSE, state |-> s + 1]

\* transition_packet that tests a mismatching pair against the first command
\* state again.
transition_packet_retest(s, packet_pair) ==
    IF ~command_states(s, packet_pair.first)
    THEN [ret |-> FALSE,
          state |-> IF command_states(0, packet_pair.first) THEN 1 ELSE 0]
    ELSE IF s + 1 = NumStates
         THEN [ret |-> TRUE, state |-> 0]
         ELSE [ret |-> FALSE, state |-> s + 1]

\* transition_packet(packet_pair) in detector state s: the value returned
\* (TRUE, or FALSE for None) and the state it leaves.
transition_packet(s, packet_pair) ==
    IF ~command_states(s, packet_pair.first)
    THEN [ret |-> FALSE, state |-> 0]
    ELSE IF s + 1 = NumStates
         THEN [ret |-> TRUE, state |-> 0]
         ELSE [ret |-> FALSE, state |-> s + 1]

\* -------------------------------------------------------- Load event extractor

\* get_track_load_details that reads the deck one byte early.
get_track_load_details_offset16(packet_pair) ==
    Bind(packet_pair.first[1].data, LAMBDA data :
      IF Len(data) <= 17
      THEN [exc |-> "IndexError", cdj_id |-> 0, path |-> <<>>]
      ELSE IF Len(packet_pair.second) <= 5
      THEN [exc |-> "IndexError", cdj_id |-> 0, path |-> <<>>]
      ELSE Bind(decode_utf16be(
                  Split(SliceFrom(packet_pair.second[6].data, 36),
                        <<0, 0, 17>>)[1]),
                LAMBDA dec :
                  IF ~dec.ok
                  THEN [exc |-> "UnicodeDecodeError", cdj_id |-> 0,
                        path |-> <<>>]
                  ELSE [exc |-> "none", cdj_id |-> data[17],
                        path |-> rstrip(encode_utf8(dec.cps))]))

\* get_track_load_details(packet_pair): exc names the exception raised, if any.
get_track_load_details(packet_pair) ==
    Bind(packet_pair.first[1].data, LAMBDA data :
      IF Len(data) <= 17
      THEN [exc |-> "IndexError", cdj_id |-> 0, path |-> <<>>]
      ELSE IF Len(packet_pair.second) <= 5
      THEN [exc |-> "IndexError", cdj_id |-> 0, path |-> <<>>]
      ELSE Bind(decode_utf16be(
                  Split(SliceFrom(packet_pair.second[6].data, 36),
                        <<0, 0, 17>>)[1]),
                LAMBDA dec :
                  IF ~dec.ok
                  THEN [exc |-> "UnicodeDecodeError", cdj_id |-> 0,
                        path |-> <<>>]
                  ELSE [exc |-> "none", cdj_id |-> data[18],
                        path |-> rstrip(encode_utf8(dec.cps))]))

\* The groups the parser yields, and get_track_load_details on each pair of
\* them, computed once.
Groups == {parsed[l] : l \in Loads} \ {None}

details_of ==
    [f \in Groups, s \in Groups |->
       Bind(PacketPair(f[1].identifier, f, s), LAMBDA packet_pair :
         get_track_load_details(packet_pair))]

\* ------------------------------------------------------------ Metadata resolver

\* Python values as json.dumps tells them apart.
PyNone == [type |-> "NoneType", v |-> <<>>]
PyStr(s) == [type |-> "str", v |-> s]
PyInt(n) == [type |-> "int", v |-> n]
PyList(l) == [type |-> "list", v |-> l]

\* base64.b64encode: the output as alphabet indices 0..63, with 64 for '='.
RECURSIVE b64encode(_)
b64encode(b) ==
    IF b = <<>> THEN <<>>
    ELSE IF Len(b) = 1
         THEN <<b[1] \div 4, (b[1] % 4) * 16, 64, 64>>
    ELSE IF Len(b) = 2
         THEN <<b[1] \div 4, ((b[1] % 4) * 16) + (b[2] \div 16),
                (b[2] % 16) * 4, 64>>
    ELSE <<b[1] \div 4, ((b[1] % 4) * 16) + (b[2] \div 16),
           ((b[2] % 16) * 4) + (b[3] \div 64), b[3] % 64>>
         \o b64encode(SubSeq(b, 4, Len(b)))

\* track.getall(key): the frames of that kind, an empty list when there is none.
getall(track, key) == IF key \in DOMAIN track THEN track[key] ELSE <<>>

\* 'data:{mime};base64,{data}'.format(...), kept as its four pieces.
artwork_uri(pic) == PyStr(<<"data:", pic.mime, ";base64,", b64encode(pic.data)>>)

\* get_track_metadata(cdj_id, path), given what mutagen.File(path) gave for the
\* path: file.status is "raise" (File raised), "none" (File returned None) or
\* "ok" with file.tags the ID3 frames.  exc names the exception raised, if any.
get_track_metadata(cdj_id, file) ==
    IF file.status = "raise" THEN [exc |-> "MutagenError", dict |-> <<>>]
    ELSE IF file.status = "none" THEN [exc |-> "AttributeError", dict |-> <<>>]
    ELSE LET track == file.tags
             art == getall(track, "APIC")
             artwork == IF Len(art) > 0 THEN artwork_uri(art[1]) ELSE PyNone
             comm == getall(track, "COMM")
             release == IF Len(comm) > 0 THEN PyList(comm[1].text)
                        ELSE PyList(comm)
             opt(key) == IF key \in DOMAIN track
                         THEN PyStr(track[key].text[1]) ELSE PyNone
         IN  IF "TPE1" \notin DOMAIN track \/ "TIT2" \notin DOMAIN track
             THEN [exc |-> "KeyError", dict |-> <<>>]
             ELSE [exc |-> "none",
                   dict |-> [deck_id |-> PyInt(cdj_id),
                             artist  |-> PyStr(track["TPE1"].text[1]),
                             title   |-> PyStr(track["TIT2"].text[1]),
                             album   |-> opt("TALB"),
                             key     |-> opt("TKEY"),
                             label   |-> opt("TPUB"),
                             year    |-> IF "TDRC" \in DOMAIN track
                                         THEN PyStr(track["TDRC"].text[1].text)
                                         ELSE PyNone,
                             release |-> release,
                             artwork |-> artwork]]

\* json.dumps of one Python value: None becomes null, the rest keep their value.
json_value(x) ==
    CASE x.type = "NoneType" -> [json |-> "null", v |-> <<>>]
      [] x.type = "str"      -> [json |-> "string", v |-> x.v]
      [] x.type = "int"      -> [json |-> "number", v |-> x.v]
      [] x.type = "list"     -> [json |-> "array", v |-> x.v]

\* json.dumps(dict): the members in the order the dict literal lists them.
json_dumps(d) ==
    << <<"deck_id", json_value(d.deck_id)>>, <<"artist", json_value(d.artist)>>,
       <<"title", json_value(d.title)>>, <<"album", json_value(d.album)>>,
       <<"key", json_value(d.key)>>, <<"label", json_value(d.label)>>,
       <<"year", json_value(d.year)>>, <<"release", json_value(d.release)>>,
       <<"artwork", json_value(d.artwork)>> >>

\* What mutagen.File(path) can give for a path.
Frame(text) == [text |-> <<text>>]

TagsMinimal == [TPE1 |-> Frame("A"), TIT2 |-> Frame("B")]

TagsFull ==
    [TPE1 |-> Frame("C"), TIT2 |-> Frame("D"), TALB |-> Frame("E"),
     TKEY |-> Frame("F"), TPUB |-> Frame("G"),
     TDRC |-> [text |-> <<[text |-> "2015"]>>],
     COMM |-> <<[text |-> <<"H">>]>>,
     APIC |-> <<[mime |-> "image/jpeg", data |-> <<255, 216>>],
                [mime |-> "image/png", data |-> <<137>>]>>]

TagsNoArtist == [TIT2 |-> Frame("B")]

TagStore ==
    {[status |-> "raise", tags |-> <<>>], [status |-> "none", tags |-> <<>>],
     [status |-> "ok", tags |-> TagsMinimal], [status |-> "ok", tags |-> TagsFull],
     [status |-> "ok", tags |-> TagsNoArtist]}

\* ---------------------------------------------------------------------- state

VARIABLES
    initial_packets,  \* data_parser.initial_packets: identifier -> pending parts
    state,            \* state_machine.state
    sniffer,          \* the sniffer in the executor: "running" or "dead"
    ready,            \* callbacks queued by loop.call_soon_threadsafe, in order
    client_queues,    \* the list client_queues: [owner, items] per queue
    handlers,         \* handle_websocket coroutines and their websockets
    last,             \* what the last handle_packet call did; reused tells that
                      \* its payload has the identifier of the pair returned
                      \* by the call before it, lookup holds the arguments of
                      \* get_track_metadata when it was called and tags what
                      \* the tag store gave
    pending_raw,      \* identifier -> the payload that created the pending entry
    published,        \* the events broadcast_trackload has run for, in order
    connection,       \* server.py: Server.connection, "unset" before the first
                      \* accept, then "open", or "closed" once the peer is gone
    written,          \* server.py: the messages handed to connection.send
    base_path,        \* server.py: opts.base_path (empty when not given)
    seen,             \* identifier -> how many payloads pair_packet has filed
                      \* under it (counted in SpecPairing only)
    emitted,          \* identifier -> how many PacketPairs pair_packet has
                      \* returned for it (counted in SpecPairing only)
    recent            \* the request sides of the last four pairs passed to
                      \* transition_packet (recorded in SpecDetector only)

vars == <<initial_packets, state, sniffer, ready, client_queues, handlers, last,
          pending_raw, published, connection, written, base_path, seen,
          emitted, recent>>

line_vars == <<connection, written, base_path>>

decode_vars == <<initial_packets, state, sniffer, last, pending_raw, seen,
                 emitted, recent>>

Init ==
    /\ initial_packets = <<>>
    /\ state = 0
    /\ sniffer = "running"
    /\ ready = <<>>
    /\ client_queues = <<>>
    /\ handlers = <<>>
    /\ last = [packet |-> [kind |-> "NoPayload", load |-> <<>>], pair |-> NoPair,
               complete |-> FALSE, exc |-> "none", event |-> None,
               reused |-> FALSE, tags |-> <<>>, lookup |-> <<>>]
    /\ pending_raw = <<>>
    /\ published = <<>>
    /\ connection = "unset"
    /\ written = <<>>
    /\ base_path = <<>>
    /\ seen = <<>>
    /\ emitted = <<>>
    /\ recent = <<>>

\* ------------------------------------------------------------- decode domain

\* The identifier pair_packet files a packet under, as a one-element sequence;
\* empty for a packet that yields no parts.
first_identifier(packet) ==
    IF packet.kind = "Raw" /\ parsed[packet.load] # None
    THEN <<parsed[packet.load][1].identifier>> ELSE <<>>

Outcome(table, st, pair, complete, resolved, exc, event) ==
    [table |-> table, state |-> st, pair |-> pair, complete |-> complete,
     resolved |-> resolved, exc |-> exc, event |-> event, lookup |-> <<>>]

\* handle_packet that extracts, resolves and hands on every pair, whether or
\* not transition_packet returned True.
run_handle_packet_eager(table, st, packet, file) ==
    IF packet.kind # "Raw"
    THEN Outcome(table, st, NoPair, FALSE, FALSE, "none", None)
    ELSE
    Bind(pair_packet(table, packet.load), LAMBDA paired_ :
      IF paired_.ret = NoPair
      THEN Outcome(paired_.table, st, NoPair, FALSE, FALSE, "none", None)
      ELSE
      Bind(transition_packet(st, paired_.ret), LAMBDA moved :
        Bind(details_of[paired_.ret.first, paired_.ret.second],
             LAMBDA details :
          IF details.exc # "none"
          THEN Outcome(paired_.table, moved.state, paired_.ret, moved.ret,
                       FALSE, details.exc, None)
          ELSE
          Bind(get_track_metadata(details.cdj_id, file), LAMBDA meta :
            IF meta.exc # "none"
            THEN [Outcome(paired_.table, moved.state, paired_.ret, moved.ret,
                          TRUE, meta.exc, None)
                    EXCEPT !.lookup = <<details.cdj_id, details.path>>]
            ELSE [Outcome(paired_.table, moved.state, paired_.ret, moved.ret,
                          TRUE, "none", json_dumps(meta.dict))
                    EXCEPT !.lookup = <<details.cdj_id, details.path>>]))))

\* The body of handle_packet(packet) on the pending table and detector state,
\* with file what the tag store gives for the extracted path: the table and the
\* state it leaves, the exception that escapes it ("none" when it returns) and
\* the serialized metadata it hands to the loop (None when it hands nothing);
\* complete tells whether transition_packet returned True, resolved whether
\* get_track_metadata was called and lookup with which deck and path.
run_handle_packet(table, st, packet, file) ==
    IF packet.kind # "Raw"
    THEN Outcome(table, st, NoPair, FALSE, FALSE, "none", None)
    ELSE
    Bind(pair_packet(table, packet.load), LAMBDA paired_ :
      IF paired_.ret = NoPair
      THEN Outcome(paired_.table, st, NoPair, FALSE, FALSE, "none", None)
      ELSE
      Bind(transition_packet(st, paired_.ret), LAMBDA moved :
        IF ~moved.ret
        THEN Outcome(paired_.table, moved.state, paired_.ret, FALSE, FALSE,
                     "none", None)
        ELSE
        Bind(details_of[paired_.ret.first, paired_.ret.second],
             LAMBDA details :
          IF details.exc # "none"
          THEN Outcome(paired_.table, moved.state, paired_.ret, TRUE, FALSE,
                       details.exc, None)
          ELSE
          Bind(get_track_metadata(details.cdj_id, file), LAMBDA meta :
            IF meta.exc # "none"
            THEN [Outcome(paired_.table, moved.state, paired_.ret, TRUE, TRUE,
                          meta.exc, None)
                    EXCEPT !.lookup = <<details.cdj_id, details.path>>]
            ELSE [Outcome(paired_.table, moved.state, paired_.ret, TRUE, TRUE,
                          "none", json_dumps(meta.dict))
                    EXCEPT !.lookup = <<details.cdj_id, details.path>>]))))

\* scapy calls handle_packet for one captured packet.  An exception that
\* escapes handle_packet escapes sniff as well, and the executor thread ends.
handle_packet(packet, file) ==
    /\ sniffer = "running"
    /\ Len(ready) + Len(published) < MaxEvents
    /\ \E r \in {run_handle_packet(initial_packets, state, packet, file)} :
           /\ initial_packets' = r.table
           /\ state' = r.state
           /\ sniffer' = IF r.exc = "none" THEN "running" ELSE "dead"
           /\ ready' = IF r.event # None THEN Append(ready, r.event) ELSE ready
           /\ last' = [packet |-> packet, pair |-> r.pair,
                       complete |-> r.complete, exc |-> r.exc,
                       event |-> r.event,
                       reused |-> /\ last.pair # NoPair
                                  /\ first_identifier(packet) =
                                         <<last.pair.identifier>>,
                       tags |-> IF r.resolved THEN <<file>> ELSE <<>>,
                       lookup |-> r.lookup]
           /\ pending_raw' = [i \in DOMAIN r.table |->
                                IF i \in DOMAIN initial_packets
                                THEN pending_raw[i] ELSE packet.load]
    /\ UNCHANGED <<client_queues, handlers, published>>
    /\ UNCHANGED line_vars

\* ------------------------------------------------------------ serving domain

\* asyncio.Queue(loop=loop): no maxsize is given, so the queue is unbounded.
QueueMaxsize == 0

\* Queue.full() of a queue created with maxsize=1.
full_bounded(items) == Len(items) >= 1

\* Queue.full()
full(items) == QueueMaxsize > 0 /\ Len(items) >= QueueMaxsize

\* put_nowait that drops the item when the queue still holds one.
put_nowait_lossy(items, item) == IF items = <<>> THEN <<item>> ELSE items

\* put_nowait that puts the item at the head of the queue.
put_nowait_front(items, item) == <<item>> \o items

\* Queue.put_nowait(item) on a queue that is not full.
put_nowait(items, item) == Append(items, item)

\* The first queue of the list on which put_nowait raises QueueFull, 0 if none.
first_full(queues) ==
    LET hits == {k \in DOMAIN queues : full(queues[k].items)}
    IN  IF hits = {} THEN 0 ELSE CHOOSE k \in hits : \A j \in hits : k <= j

\* broadcast_trackload that leaves the loop after the first queue.
broadcast_to_first(queues, metadata) ==
    [k \in DOMAIN queues |->
       IF k = 1 THEN [queues[k] EXCEPT !.items = put_nowait(@, metadata)]
       ELSE queues[k]]

\* for q in client_queues: q.put_nowait(metadata)
broadcast_to(queues, metadata) ==
    LET stop == first_full(queues)
    IN  [k \in DOMAIN queues |->
           IF stop = 0 \/ k < stop
           THEN [queues[k] EXCEPT !.items = put_nowait(@, metadata)]
           ELSE queues[k]]

\* The loop runs the next broadcast_trackload callback.
broadcast_trackload ==
    /\ ready # <<>>
    /\ client_queues' = broadcast_to(client_queues, Head(ready))
    /\ published' = Append(published, Head(ready))
    /\ ready' = Tail(ready)
    /\ UNCHANGED <<handlers>>
    /\ UNCHANGED decode_vars
    /\ UNCHANGED line_vars

\* handle_websocket that writes back a list read before the other
\* registrations: the list ends up holding the new queue alone.
handle_websocket_lost_update ==
    /\ Len(handlers) < MaxClients
    /\ client_queues' = <<[owner |-> Len(handlers) + 1, items |-> <<>>]>>
    /\ handlers' = Append(handlers, [pc |-> "get", data |-> None, open |-> TRUE,
                                     sent |-> <<>>, since |-> Len(published)])
    /\ UNCHANGED <<ready, published>>
    /\ UNCHANGED decode_vars
    /\ UNCHANGED line_vars

\* handle_websocket that fills the new queue with the events broadcast so far.
handle_websocket_replay ==
    /\ Len(handlers) < MaxClients
    /\ client_queues' = Append(client_queues,
                               [owner |-> Len(handlers) + 1, items |-> published])
    /\ handlers' = Append(handlers, [pc |-> "get", data |-> None, open |-> TRUE,
                                     sent |-> <<>>, since |-> Len(published)])
    /\ UNCHANGED <<ready, published>>
    /\ UNCHANGED decode_vars
    /\ UNCHANGED line_vars

\* A websocket connects: handle_websocket creates its queue, appends it to
\* client_queues and waits on it.
handle_websocket ==
    /\ Len(handlers) < MaxClients
    /\ client_queues' = Append(client_queues,
                               [owner |-> Len(handlers) + 1, items |-> <<>>])
    /\ handlers' = Append(handlers, [pc |-> "get", data |-> None, open |-> TRUE,
                                     sent |-> <<>>, since |-> Len(published)])
    /\ UNCHANGED <<ready, published>>
    /\ UNCHANGED decode_vars
    /\ UNCHANGED line_vars

\* The queue of handler i, as the list holds it (0 if the list does not hold it).
queue_of(queues, i) ==
    LET hits == {k \in DOMAIN queues : queues[k].owner = i}
    IN  IF hits = {} THEN 0 ELSE CHOOSE k \in hits : TRUE

\* A get that waits until no other handler is in the middle of a send.
queue_get_serial(i) ==
    /\ i \in DOMAIN handlers
    /\ handlers[i].pc = "get"
    /\ \A j \in DOMAIN handlers : handlers[j].pc # "send"
    /\ LET k == queue_of(client_queues, i)
       IN  /\ k # 0
           /\ client_queues[k].items # <<>>
           /\ handlers' = [handlers EXCEPT ![i].pc = "send",
                                           ![i].data = Head(client_queues[k].items)]
           /\ client_queues' = [client_queues EXCEPT ![k].items = Tail(@)]
    /\ UNCHANGED <<ready, published>>
    /\ UNCHANGED decode_vars
    /\ UNCHANGED line_vars

\* data = await data_queue.get()
queue_get(i) ==
    /\ i \in DOMAIN handlers
    /\ handlers[i].pc = "get"
    /\ LET k == queue_of(client_queues, i)
       IN  /\ k # 0
           /\ client_queues[k].items # <<>>
           /\ handlers' = [handlers EXCEPT ![i].pc = "send",
                                           ![i].data = Head(client_queues[k].items)]
           /\ client_queues' = [client_queues EXCEPT ![k].items = Tail(@)]
    /\ UNCHANGED <<ready, published>>
    /\ UNCHANGED decode_vars
    /\ UNCHANGED line_vars

\* await websocket.send(data) completes on an open connection.
websocket_send(i) ==
    /\ i \in DOMAIN handlers
    /\ handlers[i].pc = "send"
    /\ handlers[i].open
    /\ handlers' = [handlers EXCEPT ![i].pc = "get",
                                    ![i].sent = Append(@, handlers[i].data),
                                    ![i].data = None]
    /\ UNCHANGED <<ready, published, client_queues>>
    /\ UNCHANGED decode_vars
    /\ UNCHANGED line_vars

\* await websocket.send(data) raises ConnectionClosed: the exception leaves
\* handle_websocket, which has no handler for it, and the coroutine ends.
websocket_send_raises(i) ==
    /\ i \in DOMAIN handlers
    /\ handlers[i].pc = "send"
    /\ ~handlers[i].open
    /\ handlers' = [handlers EXCEPT ![i].pc = "raised"]
    /\ UNCHANGED <<ready, published, client_queues>>
    /\ UNCHANGED decode_vars
    /\ UNCHANGED line_vars

\* The peer of websocket i disconnects.
websocket_closed(i) ==
    /\ i \in DOMAIN handlers
    /\ handlers[i].open
    /\ handlers' = [handlers EXCEPT ![i].open = FALSE]
    /\ UNCHANGED <<ready, published, client_queues>>
    /\ UNCHANGED decode_vars
    /\ UNCHANGED line_vars

\* The tag store is read only by a call that reaches get_track_metadata.
AnyFile == CHOOSE f \in TagStore : TRUE

\* mutagen.File cannot open the empty path.
NoSuchFile == [status |-> "raise", tags |-> <<>>]

files_read(packet) ==
    LET r == run_handle_packet(initial_packets, state, packet, AnyFile)
    IN  IF ~r.resolved THEN {AnyFile}
        ELSE IF details_of[r.pair.first, r.pair.second].path = <<>>
             THEN {NoSuchFile}
             ELSE TagStore

\* The next packet of a connection that carries on track-load exchanges: the
\* request the detector awaits, or the response to the pending request.
ExchangePacket ==
    IF Id(1) \in DOMAIN initial_packets
    THEN Raw(PathResponse(Id(1), PathAB))
    ELSE Raw(CanonicalRequest(state, Id(1)))

\* The capture of the track loads of one connection, and of the mixed traffic.
Capture ==
    /\ \E file \in files_read(ExchangePacket) :
          handle_packet(ExchangePacket, file)
    /\ UNCHANGED <<seen, emitted, recent>>

CaptureAny ==
    /\ \E packet \in Packets :
          \E file \in files_read(packet) : handle_packet(packet, file)
    /\ UNCHANGED <<seen, emitted, recent>>

Get == \E i \in 1..MaxClients : queue_get(i)

Send == \E i \in 1..MaxClients : websocket_send(i)

SendRaises == \E i \in 1..MaxClients : websocket_send_raises(i)

Closed == \E i \in 1..MaxClients : websocket_closed(i)

Next ==
    \/ Capture
    \/ broadcast_trackload
    \/ handle_websocket
    \/ Get
    \/ Send
    \/ SendRaises
    \/ Closed

\* The whole program on the track loads of one connection.
Spec == Init /\ [][Next]_vars

\* The event loop runs every callback and every coroutine that is ready, in
\* turn: a queued broadcast_trackload, a get on a queue that holds an item, and
\* a send on an open connection each run eventually.
LoopFairness ==
    /\ WF_vars(broadcast_trackload)
    /\ \A i \in 1..MaxClients :
          WF_vars(queue_get(i)) /\ WF_vars(websocket_send(i))

\* The whole program under the scheduling of the event loop.
SpecFair == Init /\ [][Next]_vars /\ LoopFairness

\* The same scheduling when the peer of the first subscriber is unresponsive:
\* nothing makes its send complete.
LoopFairnessOthers ==
    /\ WF_vars(broadcast_trackload)
    /\ \A i \in (1..MaxClients) \ {1} :
          WF_vars(queue_get(i)) /\ WF_vars(websocket_send(i))

SpecUnresponsive == Init /\ [][Next]_vars /\ LoopFairnessOthers

NextDecode == CaptureAny

\* The decode domain alone, on the mixed traffic of two connections.
SpecDecode == Init /\ [][NextDecode]_vars

\* ---------------------------------------------- line-oriented server (server.py)

\* server.py holds its own copies of CDJDataParser and TrackLoadStateMachine,
\* line for line those of trackload-server.py; pair_packet and
\* transition_packet above stand for both.

\* get_track_load_details of server.py: ord() of the deck byte, and the path
\* decoded and encoded but not stripped.
server_get_track_load_details(packet_pair) ==
    Bind(packet_pair.first[1].data, LAMBDA data :
      IF Len(data) <= 17
      THEN [exc |-> "IndexError", cdj_id |-> 0, path |-> <<>>]
      ELSE IF Len(packet_pair.second) <= 5
      THEN [exc |-> "IndexError", cdj_id |-> 0, path |-> <<>>]
      ELSE Bind(decode_utf16be(
                  Split(SliceFrom(packet_pair.second[6].data, 36),
                        <<0, 0, 17>>)[1]),
                LAMBDA dec :
                  IF ~dec.ok
                  THEN [exc |-> "UnicodeDecodeError", cdj_id |-> 0,
                        path |-> <<>>]
                  ELSE [exc |-> "none", cdj_id |-> data[18],
                        path |-> encode_utf8(dec.cps)]))

server_details_of ==
    [f \in Groups, s \in Groups |->
       Bind(PacketPair(f[1].identifier, f, s), LAMBDA packet_pair :
         server_get_track_load_details(packet_pair))]

\* The decimal digits of n, as characters.
RECURSIVE digits(_)
digits(n) ==
    IF n < 10 THEN <<48 + n>> ELSE digits(n \div 10) \o <<48 + (n % 10)>>

\* '{:02d}'.format(n): the decimal digits, padded with a zero to two characters.
format_02d(n) == IF n < 10 THEN <<48>> \o digits(n) ELSE digits(n)

\* format_line without the line end.
format_line_open(cdj_id, path) == format_02d(cdj_id) \o <<58>> \o path

\* '{:02d}:{}\n'.format(cdj_id, path)
format_line(cdj_id, path) == format_02d(cdj_id) \o <<58>> \o path \o <<10>>

\* path.startswith(prefix)
startswith(path, prefix) == Slice(path, 0, Len(prefix)) = prefix

\* The path with opts.base_path removed from its start, when it is given and
\* the path starts with it.
strip_base_path(path, base) ==
    IF base # <<>> /\ startswith(path, base)
    THEN SliceFrom(path, Len(base)) ELSE path

\* Server.send(message) with self.connection as conn: the exception raised
\* ("none" when it returns) and the message handed to the client socket (None
\* when nothing is).  Before the first accept the attribute connection does
\* not exist; lost tells whether a send on a socket whose peer is gone fails.
Server_send(conn, message, lost) ==
    CASE conn = "unset"  -> [exc |-> "AttributeError", sent |-> None]
      [] conn = "open"   -> [exc |-> "none", sent |-> message]
      [] conn = "closed" -> IF lost THEN [exc |-> "socket.error", sent |-> None]
                            ELSE [exc |-> "none", sent |-> None]

\* The body of handle_packet(packet) of server.py; event is the line handed to
\* the client.
server_run_handle_packet(table, st, packet, base, conn, lost) ==
    IF packet.kind # "Raw"
    THEN Outcome(table, st, NoPair, FALSE, FALSE, "none", None)
    ELSE
    Bind(pair_packet(table, packet.load), LAMBDA paired_ :
      IF paired_.ret = NoPair
      THEN Outcome(paired_.table, st, NoPair, FALSE, FALSE, "none", None)
      ELSE
      Bind(transition_packet(st, paired_.ret), LAMBDA moved :
        IF ~moved.ret
        THEN Outcome(paired_.table, moved.state, paired_.ret, FALSE, FALSE,
                     "none", None)
        ELSE
        Bind(server_details_of[paired_.ret.first, paired_.ret.second],
             LAMBDA details :
          IF details.exc # "none"
          THEN Outcome(paired_.table, moved.state, paired_.ret, TRUE, FALSE,
                       details.exc, None)
          ELSE
          Bind(Server_send(conn,
                           format_line(details.cdj_id,
                                       strip_base_path(details.path, base)),
                           lost),
               LAMBDA out :
                 Outcome(paired_.table, moved.state, paired_.ret, TRUE, FALSE,
                         out.exc, out.sent)))))

\* scapy calls handle_packet of server.py for one captured packet.
server_handle_packet(packet, lost) ==
    /\ sniffer = "running"
    /\ Len(written) < MaxEvents
    /\ \E r \in {server_run_handle_packet(initial_packets, state, packet,
                                          base_path, connection, lost)} :
           /\ initial_packets' = r.table
           /\ state' = r.state
           /\ sniffer' = IF r.exc = "none" THEN "running" ELSE "dead"
           /\ written' = IF r.event # None THEN Append(written, r.event)
                         ELSE written
           /\ last' = [packet |-> packet, pair |-> r.pair,
                       complete |-> r.complete, exc |-> r.exc,
                       event |-> r.event,
                       reused |-> /\ last.pair # NoPair
                                  /\ first_identifier(packet) =
                                         <<last.pair.identifier>>,
                       tags |-> <<>>, lookup |-> <<>>]
           /\ pending_raw' = [i \in DOMAIN r.table |->
                                IF i \in DOMAIN initial_packets
                                THEN pending_raw[i] ELSE packet.load]
    /\ UNCHANGED <<ready, client_queues, handlers, published>>
    /\ UNCHANGED <<connection, base_path, seen, emitted, recent>>

\* Server.handle_accept: a client connects and becomes the connection.
handle_accept ==
    /\ connection' = "open"
    /\ UNCHANGED <<written, base_path>>
    /\ UNCHANGED <<ready, client_queues, handlers, published>>
    /\ UNCHANGED decode_vars

\* The connected client goes away; Server.connection still holds its socket.
connection_lost ==
    /\ connection = "open"
    /\ connection' = "closed"
    /\ UNCHANGED <<written, base_path>>
    /\ UNCHANGED <<ready, client_queues, handlers, published>>
    /\ UNCHANGED decode_vars

\* Whether the send is reached with a connection whose peer is gone.
lost_choices(packet) ==
    IF connection = "closed"
       /\ server_run_handle_packet(initial_packets, state, packet, base_path,
                                   "open", FALSE).event # None
    THEN BOOLEAN ELSE {FALSE}

\* The packets of one connection, with the foreign traffic.
LinePackets == {packet \in Packets : first_identifier(packet) # <<Id(2)>>}

LineCapture ==
    \E packet \in LinePackets :
        \E lost \in lost_choices(packet) : server_handle_packet(packet, lost)

\* The first payload of a session, drawn from the parser payloads.
CaptureFirst ==
    /\ initial_packets = <<>>
    /\ last.packet.kind = "NoPayload"
    /\ \E data \in ParserLoads : handle_packet(Raw(data), AnyFile)
    /\ UNCHANGED <<seen, emitted, recent>>

NextParse == CaptureFirst

\* The parser on the first payload of a session.
SpecParse == Init /\ [][NextParse]_vars

\* The packets of the runs that count payloads: requests and responses of two
\* identifiers, a marker with nothing behind it (filed under the empty
\* identifier), a foreign payload and a padding packet.
PairingPackets ==
    {Raw(LoadRequest(Id(1))), Raw(PathResponse(Id(1), PathAB)),
     Raw(LoadRequest(Id(2))), Raw(CDJ_SECTION_MARKER), Raw(<<71, 69, 84>>),
     [kind |-> "Padding", load |-> <<>>]}

\* The entry of a counter, 0 for a key it does not hold.
count(d, key) == IF key \in DOMAIN d THEN d[key] ELSE 0

\* The counter with one more under key.
counted(d, key) ==
    [k \in (DOMAIN d) \cup {key} |-> IF k = key THEN count(d, key) + 1 ELSE d[k]]

RECURSIVE total(_)
total(d) ==
    IF DOMAIN d = {} THEN 0
    ELSE LET k == CHOOSE j \in DOMAIN d : TRUE
         IN  d[k] + total([j \in (DOMAIN d) \ {k} |-> d[j]])

\* handle_packet on one of these packets, counting the payload under the
\* identifier of its first part and the pair returned under its identifier.
CountedCapture ==
    /\ total(seen) < MaxPayloads
    /\ \E packet \in PairingPackets :
          /\ handle_packet(packet, AnyFile)
          /\ seen' = IF first_identifier(packet) = <<>> THEN seen
                     ELSE counted(seen, first_identifier(packet)[1])
          /\ emitted' = IF last'.pair = NoPair THEN emitted
                        ELSE counted(emitted, last'.pair.identifier)
    /\ UNCHANGED recent

NextPairing == CountedCapture

\* The pairing correlator on a bounded run of payloads.
SpecPairing == Init /\ [][NextPairing]_vars

\* The packets of the runs that record the detector's input: the requests of
\* the exchange and their response.
DetectorPackets ==
    {Raw(LoadRequest(Id(1))), Raw(DataRequest(Id(1), 1)),
     Raw(UnsureRequest(Id(1))), Raw(PathResponse(Id(1), PathAB))}

\* The last n elements of a sequence.
last_of(s, n) == SubSeq(s, IF Len(s) > n THEN Len(s) - n + 1 ELSE 1, Len(s))

\* handle_packet on one of these packets, recording the request side of the
\* pair it passes to transition_packet.
RecordedCapture ==
    /\ \E packet \in DetectorPackets :
          \E file \in files_read(packet) : handle_packet(packet, file)
    /\ recent' = IF last'.pair = NoPair THEN recent
                 ELSE last_of(Append(recent, last'.pair.first), NumStates)
    /\ UNCHANGED <<seen, emitted>>

NextDetector == RecordedCapture

\* The detector on the pairs of one connection, in any order.
SpecDetector == Init /\ [][NextDetector]_vars

\* The values of --base-path: not given, or "a".
BasePaths == {<<>>, <<97>>}

InitLine ==
    /\ initial_packets = <<>>
    /\ state = 0
    /\ sniffer = "running"
    /\ ready = <<>>
    /\ client_queues = <<>>
    /\ handlers = <<>>
    /\ last = [packet |-> [kind |-> "NoPayload", load |-> <<>>], pair |-> NoPair,
               complete |-> FALSE, exc |-> "none", event |-> None,
               reused |-> FALSE, tags |-> <<>>, lookup |-> <<>>]
    /\ pending_raw = <<>>
    /\ published = <<>>
    /\ connection = "unset"
    /\ written = <<>>
    /\ base_path \in BasePaths
    /\ seen = <<>>
    /\ emitted = <<>>
    /\ recent = <<>>

NextLine ==
    \/ LineCapture
    \/ handle_accept
    \/ connection_lost

\* The line-oriented server on the traffic of one connection.
SpecLine == InitLine /\ [][NextLine]_vars

\* ------------------------------------------------------------------ properties

\* A step of the decode domain: a handle_packet call that changed something.
DecodeStep == decode_vars' # decode_vars

\* C1: two payloads sharing an identifier yield exactly one PacketPair, whose
\* first group is the parse of the earlier payload and whose second group is
\* the parse of the later one, and the pending entry is gone once the pair is
\* returned; a payload whose identifier has no pending entry (as after a
\* completed pairing) returns no pair and leaves a pending entry made of its
\* own parts alone.
C1_PairsInArrivalOrder ==
    [][DecodeStep =>
         LET id == first_identifier(last'.packet)
         IN  /\ id = <<>> => last'.pair = NoPair
             /\ last'.reused => last'.pair = NoPair
             /\ id # <<>> =>
                  IF id[1] \in DOMAIN initial_packets
                  THEN /\ last'.pair =
                            PacketPair(id[1], parsed[pending_raw[id[1]]],
                                       parsed[last'.packet.load])
                       /\ id[1] \notin DOMAIN initial_packets'
                  ELSE /\ last'.pair = NoPair
                       /\ id[1] \in DOMAIN initial_packets'
                       /\ initial_packets'[id[1]] = parsed[last'.packet.load]
                       /\ pending_raw'[id[1]] = last'.packet.load]_vars

\* A third payload reused the identifier of the pair returned just before it and
\* is now pending on its own.
C1_Witness ==
    /\ last.reused
    /\ last.pair = NoPair
    /\ first_identifier(last.packet)[1] \in DOMAIN initial_packets

\* C2: a pair whose request is the canonical one of the current state moves the
\* detector 0 -> 1 -> 2 -> 3 -> complete -> 0, completion being signalled on the
\* fourth and only there; a pair that fails the current state's predicate
\* resets the state to 0 at once and signals nothing; a call that yields no
\* pair leaves the state alone.
C2_DetectorSequence ==
    [][DecodeStep =>
         /\ last'.pair = NoPair => (state' = state /\ ~last'.complete)
         /\ last'.pair # NoPair =>
              /\ (\E id \in Identifiers :
                     last'.pair.first = parsed[CanonicalRequest(state, id)])
                 => /\ state' = (state + 1) % 4
                    /\ last'.complete = (state = 3)
              /\ ~command_states(state, last'.pair.first)
                 => (state' = 0 /\ ~last'.complete)]_vars

\* Two exchanges have completed, the second one just now.
C2_Witness ==
    /\ Len(ready) + Len(published) >= 2
    /\ last.complete
    /\ last.exc = "none"
    /\ state = 0

\* C10: a payload that does not start with the marker yields no segments, and
\* the call that handles it changes neither the pending table nor the detector
\* state, returns no pair, extracts and resolves nothing and hands nothing to
\* the loop.
C10_ForeignPayloadIgnored ==
    [][(DecodeStep /\ last'.packet.kind = "Raw"
          /\ SubSeq(last'.packet.load, 1, Min(6, Len(last'.packet.load)))
               # <<17, 135, 35, 73, 174, 17>>)
       => /\ parsed[last'.packet.load] = <<>>
          /\ UNCHANGED <<initial_packets, state, sniffer, ready, published,
                         client_queues, pending_raw>>
          /\ last'.pair = NoPair
          /\ ~last'.complete
          /\ last'.exc = "none"
          /\ last'.event = None]_vars

\* A foreign payload holding a whole section was handled while an entry was
\* pending and the detector was under way.
C10_Witness ==
    /\ last.packet = Raw(<<71, 69>> \o LoadRequest(Id(1)))
    /\ initial_packets # <<>>
    /\ state > 0

\* C3: a pair whose request is a single segment satisfying the first command
\* state moves the detector 0 -> 1; a completion whose extraction and
\* resolution succeed hands exactly one event to the loop, carrying the deck
\* byte of the completing request, and no other call hands anything; each
\* broadcast takes the oldest event handed over and puts it on every queue of
\* client_queues.
C3_EndToEnd ==
    [][/\ DecodeStep =>
            /\ (/\ state = 0
                /\ last'.pair # NoPair
                /\ Len(last'.pair.first) = 1
                /\ Slice(last'.pair.first[1].data, 18, 21) = <<3, 4, 1>>)
               => state' = 1
            /\ (last'.complete /\ last'.exc = "none")
               => /\ last'.event # None
                  /\ last'.event[1] =
                       <<"deck_id", [json |-> "number",
                                     v |-> last'.pair.first[1].data[18]]>>
                  /\ ready' = Append(ready, last'.event)
            /\ ~(last'.complete /\ last'.exc = "none") => ready' = ready
       /\ published' # published =>
            /\ ready # <<>>
            /\ published' = Append(published, Head(ready))
            /\ ready' = Tail(ready)
            /\ Len(client_queues') = Len(client_queues)
            /\ \A k \in DOMAIN client_queues :
                  client_queues'[k].items =
                     Append(client_queues[k].items, Head(ready))]_vars

\* A load was detected, resolved and sent to both of two connected websockets.
C3_Witness ==
    /\ Len(handlers) = 2
    /\ published # <<>>
    /\ \A i \in DOMAIN handlers : handlers[i].sent = published

\* C4 (as claimed): when the tag store fails or a required tag is missing,
\* nothing is published for the event and the decode pipeline is still running.
C4_TagFailureKeepsDecoding ==
    last.exc \in {"MutagenError", "AttributeError", "KeyError"}
    => (last.event = None /\ sniffer = "running")

\* C5 (as claimed): an offset-extraction failure at completion leaves the
\* decode pipeline running, so that later payloads are still handled.
C5_ExtractionFailureKeepsDecoding ==
    last.exc = "IndexError" => sniffer = "running"

\* What handler i has taken from its queue and not sent.
in_flight(i) ==
    IF handlers[i].pc = "get" THEN <<>> ELSE <<handlers[i].data>>

\* C6: for every connected subscriber, what was sent to it, followed by what it
\* holds in flight and what waits in its queue, is exactly the sequence of
\* events published since it registered: one copy of each, none lost, in the
\* order published.
C6_OneCopyInOrder ==
    \A i \in DOMAIN handlers :
        handlers[i].open =>
            /\ queue_of(client_queues, i) # 0
            /\ handlers[i].sent \o in_flight(i)
                 \o client_queues[queue_of(client_queues, i)].items
               = SubSeq(published, handlers[i].since + 1, Len(published))

\* Two connected subscribers have each been sent two different events, in the
\* order published.
C6_Witness ==
    /\ Len(handlers) = 2
    /\ Len(published) = 2
    /\ published[1] # published[2]
    /\ \A i \in DOMAIN handlers :
          handlers[i].open /\ handlers[i].sent = published

\* C7 (as claimed): a publish enqueues nothing for a subscriber that has
\* disconnected.
C7_NothingForDisconnected ==
    [][published' # published =>
         \A i \in DOMAIN handlers :
            ~handlers[i].open =>
               \A k \in DOMAIN client_queues :
                  client_queues[k].owner = i
                  => client_queues'[k].items = client_queues[k].items]_vars

\* C8 (as claimed): a subscriber whose send failed is no longer in the
\* subscriber set.
C8_FailedSubscriberUnregistered ==
    \A i \in DOMAIN handlers :
        handlers[i].pc = "raised" => queue_of(client_queues, i) = 0

\* A broadcast that puts the event on every queue of client_queues.
PublishToAll ==
    /\ broadcast_trackload
    /\ \A k \in DOMAIN client_queues :
          client_queues'[k].items = Append(client_queues[k].items, Head(ready))

\* C9: whenever an event waits to be broadcast, the broadcast can run and puts
\* the event on every registered queue, whatever those queues still hold; and
\* a running capture can always hand its next packet to handle_packet, whatever
\* waits to be broadcast or delivered.
C9_PublishNeverBlocks ==
    /\ ready # <<>> => ENABLED PublishToAll
    /\ (sniffer = "running" /\ Len(ready) + Len(published) < MaxEvents)
       => ENABLED Capture

\* An event waits to be broadcast while a subscriber still holds an undelivered
\* one in its queue and another is in the middle of a send.
C9_Witness ==
    /\ ready # <<>>
    /\ \E k \in DOMAIN client_queues : client_queues[k].items # <<>>
    /\ \E i \in DOMAIN handlers : handlers[i].pc = "send"

\* C11: in the line-oriented server, a handle_packet call that completes the
\* sequence and extracts a deck and a path while a client is connected hands
\* that client exactly one line, the two-digit deck id, a colon, the path
\* (without the base path) and a line feed; a call that does not complete the
\* sequence writes nothing, and nothing else ever writes a line.
C11_OneLinePerLoad ==
    [][ /\ (written' # written) => (DecodeStep /\ last'.complete)
        /\ (DecodeStep /\ ~last'.complete) => (written' = written)
        /\ (DecodeStep /\ last'.complete /\ last'.exc = "none"
              /\ connection = "open")
           => LET details == server_details_of[last'.pair.first,
                                               last'.pair.second]
                  deck == last'.pair.first[1].data[18]
              IN  written' = Append(written,
                                   format_02d(deck) \o <<58>>
                                   \o strip_base_path(details.path, base_path)
                                   \o <<10>>) ]_vars

\* Deck 1 loaded "ab " : the line "01:ab \n" was written, or "01:b \n" with
\* the base path "a".
C11_Witness ==
    /\ last.complete
    /\ written # <<>>
    /\ written[Len(written)] =
           IF base_path = <<>> THEN <<48, 49, 58, 97, 98, 32, 10>>
           ELSE <<48, 49, 58, 98, 32, 10>>

\* The member of a serialized event with the given name.
member(event, name) ==
    LET k == CHOOSE j \in DOMAIN event : event[j][1] = name
    IN  event[k][2]

\* C12 (as claimed): when the tag store gave artist "A", title "B" and no
\* other tag, the event has artist "A" and title "B", and its album, key,
\* label, year, release and artwork are all null.
C12_MinimalTagsOthersAbsent ==
    (last.tags = <<[status |-> "ok", tags |-> TagsMinimal]>>)
    => /\ last.event # None
       /\ member(last.event, "artist") = [json |-> "string", v |-> "A"]
       /\ member(last.event, "title") = [json |-> "string", v |-> "B"]
       /\ \A name \in {"album", "key", "label", "year", "release", "artwork"} :
              member(last.event, name).json = "null"

\* C13: a pair that fails the predicate of the current state k > 0 leaves the
\* detector in state 0 and reports no completion, and nothing is extracted
\* or handed on for it, even when the pair satisfies the predicate of state 0.
C13_MismatchNotRetested ==
    [][ (/\ DecodeStep
         /\ last'.pair # NoPair
         /\ state > 0
         /\ ~command_states(state, last'.pair.first))
        => (/\ state' = 0
            /\ ~last'.complete
            /\ last'.exc = "none"
            /\ last'.event = None
            /\ ready' = ready) ]_vars

\* A pair that satisfies the predicate of state 0 was dropped: had the
\* detector been in state 0 it would now be in state 1.
C13_Witness ==
    /\ last.pair # NoPair
    /\ ~last.complete
    /\ command_states(0, last.pair.first)
    /\ state = 0

\* Whether an offset the extractor reads lies beyond the bytes of the pair: the
\* request's first data shorter than 18 bytes, a response of fewer than 6
\* sections, or a sixth response section with data shorter than 36 bytes.
offset_exceeds(pair) ==
    \/ Len(pair.first[1].data) < 18
    \/ Len(pair.second) < 6
    \/ Len(pair.second[6].data) < 36

\* C14 (as claimed): when the sequence completes on a pair in which an
\* extraction offset lies beyond the available bytes, the call fails and no
\* line or event is handed downstream.
C14_OffsetFailureEmitsNothing ==
    [][ (DecodeStep /\ last'.complete /\ offset_exceeds(last'.pair))
        => (/\ last'.exc # "none"
            /\ last'.event = None
            /\ written' = written
            /\ ready' = ready) ]_vars

\* C15: an event published while subscriber i is registered is eventually
\* sent to i, unless i's connection closes first: nothing removes a queued
\* event other than the subscriber's own get.
C15_EventuallySent ==
    \A i \in 1..MaxClients : \A n \in 1..MaxEvents :
        (/\ i \in DOMAIN handlers
         /\ handlers[i].since < n
         /\ n <= Len(published))
        ~> (/\ i \in DOMAIN handlers
            /\ \/ ~handlers[i].open
               \/ /\ handlers[i].since < n
                  /\ Len(handlers[i].sent) >= n - handlers[i].since
                  /\ n <= Len(published)
                  /\ handlers[i].sent[n - handlers[i].since] = published[n])

\* A subscriber that registered after the first event and is still connected
\* has been sent the second event, which waited in its queue behind nothing
\* of the first.
C15_Witness ==
    \E i \in DOMAIN handlers :
        /\ handlers[i].open
        /\ handlers[i].since = 1
        /\ Len(published) = 2
        /\ handlers[i].sent = <<published[2]>>

\* C16: when nothing makes the sends of the first subscriber complete, every
\* event handed to the loop is still broadcast, every other subscriber is
\* still sent each event published since it registered (unless its connection
\* closes), and a running capture can always handle its next packet.
C16_UnresponsiveDelaysOnlyItself ==
    /\ \A n \in 1..MaxEvents :
          (Len(published) + Len(ready) >= n) ~> (Len(published) >= n)
    /\ \A i \in (1..MaxClients) \ {1} : \A n \in 1..MaxEvents :
          (/\ i \in DOMAIN handlers
           /\ handlers[i].since < n
           /\ n <= Len(published))
          ~> (/\ i \in DOMAIN handlers
              /\ \/ ~handlers[i].open
                 \/ /\ handlers[i].since < n
                    /\ Len(handlers[i].sent) >= n - handlers[i].since)
    /\ []((sniffer = "running" /\ Len(ready) + Len(published) < MaxEvents)
           => ENABLED Capture)

\* The first subscriber is still in its first send with a later event waiting in
\* its queue, while the second subscriber has been sent both events.
C16_Witness ==
    /\ Len(handlers) = 2
    /\ Len(published) = 2
    /\ handlers[1].pc = "send" /\ handlers[1].sent = <<>>
    /\ client_queues[queue_of(client_queues, 1)].items = <<published[2]>>
    /\ handlers[2].sent = published

\* C17: registrations and broadcasts both run on the event loop, one at a
\* time.  Every registration adds exactly its own queue and keeps all the
\* others; every handler keeps exactly one queue in the list; and every
\* broadcast appends the event exactly once to every queue the list holds at
\* that moment, leaving the list itself as it was.
C17_SubscriberSetSafe ==
    /\ [](\A i \in DOMAIN handlers :
            \E k \in DOMAIN client_queues :
                /\ client_queues[k].owner = i
                /\ \A j \in DOMAIN client_queues :
                      client_queues[j].owner = i => j = k)
    /\ [][ (Len(handlers') > Len(handlers))
           => (/\ Len(client_queues') = Len(client_queues) + 1
               /\ SubSeq(client_queues', 1, Len(client_queues)) = client_queues
               /\ client_queues'[Len(client_queues')].items = <<>>) ]_vars
    /\ [][ (published' # published)
           => (/\ ready # <<>>
               /\ published' = Append(published, Head(ready))
               /\ ready' = Tail(ready)
               /\ Len(client_queues') = Len(client_queues)
               /\ \A k \in DOMAIN client_queues :
                     /\ client_queues'[k].owner = client_queues[k].owner
                     /\ client_queues'[k].items =
                            client_queues[k].items \o <<Head(ready)>>) ]_vars

\* A subscriber registered between two broadcasts, next to an earlier
\* subscriber: the first broadcast reached one queue, the second reached both.
C17_Witness ==
    /\ Len(handlers) = 2
    /\ handlers[1].since = 0 /\ handlers[2].since = 1
    /\ Len(published) = 2
    /\ handlers[1].sent = published
    /\ handlers[2].sent = <<published[2]>>

\* C18: a handle_packet call in which the detector did not report completion
\* raises nothing, reads no tags and hands nothing on, even for a pair the
\* extractor would fail on; and every event handed to the loop comes from a
\* call that completed the sequence, one event per such call.
C18_ExtractOnlyOnCompletion ==
    /\ [][ (DecodeStep /\ ~last'.complete)
           => (/\ last'.exc = "none"
               /\ last'.event = None
               /\ last'.tags = <<>>
               /\ sniffer' = "running"
               /\ ready' = ready) ]_vars
    /\ [][ (ready' # ready)
           => (/\ DecodeStep
               /\ last'.complete
               /\ last'.pair # NoPair
               /\ ready' = Append(ready, last'.event)) ]_vars

\* A pair whose request data is too short for the extractor was returned in a
\* call that did not complete the sequence, and the capture is still running.
C18_Witness ==
    /\ last.pair # NoPair
    /\ ~last.complete
    /\ Len(last.pair.first[1].data) < 18
    /\ sniffer = "running"

\* C19: a handle_packet call changes at most the pending entry of its payload's
\* identifier i.  Every other identifier is pending after the call exactly
\* when it was before, with the same parts; a call that returns a pair leaves
\* no entry for i, a call that stores a group adds the entry of i, and a
\* payload that yields no parts leaves the table as it was.
C19_OnlyOwnEntryChanges ==
    [][DecodeStep =>
         LET id == first_identifier(last'.packet)
             others == (DOMAIN initial_packets \cup DOMAIN initial_packets')
                       \ {id[k] : k \in DOMAIN id}
         IN  /\ \A j \in others :
                   /\ j \in DOMAIN initial_packets
                   /\ j \in DOMAIN initial_packets'
                   /\ initial_packets'[j] = initial_packets[j]
             /\ id = <<>> => initial_packets' = initial_packets
             /\ (id # <<>> /\ last'.pair # NoPair) =>
                   /\ last'.pair.identifier = id[1]
                   /\ id[1] \in DOMAIN initial_packets
                   /\ id[1] \notin DOMAIN initial_packets'
             /\ (id # <<>> /\ last'.pair = NoPair) =>
                   /\ id[1] \notin DOMAIN initial_packets
                   /\ DOMAIN initial_packets' = DOMAIN initial_packets \cup {id[1]}
       ]_vars

\* A pair was returned for one identifier while a group of the other identifier
\* stays pending.
C19_Witness ==
    /\ last.pair # NoPair
    /\ last.pair.identifier = Id(1)
    /\ DOMAIN initial_packets = {Id(2)}
    /\ sniffer = "running"

\* The bytes of the sixth response section of a pair from offset 36 up to the
\* first terminator 00 00 11 (to the end when there is none).
path_bytes(pair) ==
    LET rest == SliceFrom(pair.second[6].data, 36)
        stop == Find(rest, <<0, 0, 17>>)
    IN  IF stop = -1 THEN rest ELSE Slice(rest, 0, stop)

\* C20: when a call completes the sequence and reaches the resolver, the deck
\* it resolves and publishes is byte 17 of the data of the first request
\* section of the pair that completed the sequence, and the path it resolves
\* is the text held by the sixth response section of that same pair from
\* offset 36 up to the first terminator, whatever the earlier pairs held.
C20_FieldsFromCompletingPair ==
    [][ (DecodeStep /\ last'.tags # <<>>)
        => (/\ last'.complete
            /\ last'.lookup =
                  <<last'.pair.first[1].data[18],
                    rstrip(encode_utf8(
                             decode_utf16be(path_bytes(last'.pair)).cps))>>
            /\ last'.event # None
                 => member(last'.event, "deck_id") =
                       [json |-> "number", v |-> last'.pair.first[1].data[18]])
      ]_vars

\* A load of deck 2 with path "ab" was resolved and handed on.
C20_Witness ==
    /\ last.complete
    /\ last.lookup = <<2, <<97, 98>>>>
    /\ last.event # None
    /\ member(last.event, "deck_id").v = 2

\* The pieces, each behind a marker, put together again.
RECURSIVE join(_)
join(pieces) ==
    IF pieces = <<>> THEN <<>>
    ELSE CDJ_SECTION_MARKER \o pieces[1] \o join(Tail(pieces))

\* Whether the bytes sep occur in s.
contains(s, sep) ==
    \E i \in 0..(Len(s) - Len(sep)) : SubSeq(s, i + 1, i + Len(sep)) = sep

\* bytes[a:b] of a piece, empty where the piece ends before a.
bytes(piece, a, b) ==
    IF Len(piece) <= a THEN <<>> ELSE SubSeq(piece, a + 1, Min(b, Len(piece)))

\* C21: the first payload of a session, when it begins with the marker, is
\* handled without any failure and leaves as pending group one part per
\* piece, in order, where the pieces are what lies between the markers (put
\* together behind markers they give the payload back, and none holds a
\* marker); each part has identifier bytes[0:4], command bytes[5:9] and data
\* bytes[10:] of its piece, cut short or empty where the piece ends early.
C21_ParserSegments ==
    [][ (/\ DecodeStep
         /\ last'.packet.kind = "Raw"
         /\ Len(last'.packet.load) >= 6
         /\ SubSeq(last'.packet.load, 1, 6) = <<17, 135, 35, 73, 174, 17>>)
        => (/\ last'.exc = "none"
            /\ sniffer' = "running"
            /\ \E i \in DOMAIN initial_packets' :
                  LET parts == initial_packets'[i]
                      pieces == Tail(Split(last'.packet.load,
                                           <<17, 135, 35, 73, 174, 17>>))
                  IN  /\ pieces # <<>>
                      /\ join(pieces) = last'.packet.load
                      /\ \A k \in DOMAIN pieces :
                            ~contains(pieces[k], <<17, 135, 35, 73, 174, 17>>)
                      /\ DOMAIN parts = DOMAIN pieces
                      /\ \A k \in DOMAIN pieces :
                            /\ parts[k].identifier = bytes(pieces[k], 0, 4)
                            /\ parts[k].command = bytes(pieces[k], 5, 9)
                            /\ parts[k].data =
                                  bytes(pieces[k], 10, Len(pieces[k]))
                      /\ i = parts[1].identifier) ]_vars

\* A payload of two pieces is pending as two parts: the first a full header
\* with two bytes of data, the second cut inside the command.
C21_Witness ==
    \E i \in DOMAIN initial_packets :
        /\ Len(initial_packets[i]) = 2
        /\ initial_packets[i][1] =
              [identifier |-> <<0, 0, 0, 3>>, command |-> <<48, 0, 15, 6>>,
               data |-> <<7, 8>>]
        /\ initial_packets[i][2] =
              [identifier |-> <<0, 0, 0, 3>>, command |-> <<48, 0>>,
               data |-> <<>>]

\* C22: after any run of payloads, an identifier is pending exactly when an
\* odd number of payloads were filed under it, and the pairs returned for it
\* number half the payloads filed under it, rounded down; and an entry leaves
\* the table only in a call whose payload is filed under the same identifier.
C22_PendingIffOdd ==
    /\ [](\A i \in DOMAIN seen \cup DOMAIN initial_packets \cup DOMAIN emitted :
            /\ (i \in DOMAIN initial_packets) <=> (count(seen, i) % 2 = 1)
            /\ count(emitted, i) = count(seen, i) \div 2)
    /\ [][ \A i \in DOMAIN initial_packets :
             i \notin DOMAIN initial_packets'
             => first_identifier(last'.packet) = <<i>> ]_vars

\* Five payloads were filed under one identifier, giving two pairs and a
\* pending entry, while a single payload of another identifier stays pending.
C22_Witness ==
    \E i \in DOMAIN initial_packets : \E j \in DOMAIN initial_packets :
        /\ i # j
        /\ count(seen, i) = 5 /\ count(emitted, i) = 2
        /\ count(seen, j) = 1 /\ count(emitted, j) = 0

\* The predicate of detector state k on the request side p of a pair.
state_predicate(k, p) ==
    CASE k = 0 -> /\ Len(p[1].data) >= 21
                  /\ SubSeq(p[1].data, 19, 21) = <<3, 4, 1>>
      [] k = 1 -> p[1].command = <<48, 0, 15, 6>>
      [] k = 2 -> p[1].command = <<33, 2, 15, 2>>
      [] k = 3 -> p[1].command = <<48, 0, 15, 6>>

\* C23: in every reachable state the detector state k means that the last k
\* pairs passed to the detector satisfied the predicates of states 0..k-1 in
\* that order; and when the last call completed the sequence, the last four
\* pairs passed to the detector satisfied the predicates of states 0, 1, 2 and
\* 3 in that order.
C23_StateCountsMatches ==
    /\ state \in 0..3
    /\ Len(recent) >= state
    /\ \A j \in 0..(state - 1) :
          state_predicate(j, recent[Len(recent) - state + 1 + j])
    /\ last.complete =>
          /\ state = 0
          /\ Len(recent) = 4
          /\ \A j \in 0..3 : state_predicate(j, recent[j + 1])

\* After a first load was handed on, the last call completed the sequence
\* again, on a pair made of two requests.
C23_Witness ==
    /\ last.complete
    /\ Len(recent) = 4
    /\ last.pair.second = recent[4]
    /\ Len(ready) = 1

\* C24 (as claimed): in the line-oriented server, a call that completes the
\* sequence and extracts a deck and a path before any client has connected
\* writes nothing, raises nothing and leaves the capture running.
C24_NoClientLoadDropped ==
    [][ (/\ DecodeStep
         /\ last'.complete
         /\ connection = "unset"
         /\ ~offset_exceeds(last'.pair)
         /\ server_details_of[last'.pair.first, last'.pair.second].exc = "none")
        => (/\ last'.exc = "none"
            /\ sniffer' = "running"
            /\ written' = written) ]_vars

\* Everything subscriber i has been sent, holds in flight or has waiting in its
\* queue, in that order.
received(i) ==
    handlers[i].sent \o in_flight(i)
        \o client_queues[queue_of(client_queues, i)].items

\* C25: what a subscriber has been sent, holds or has waiting is always a run of
\* the events broadcast after it registered, starting with the first of them;
\* it never holds an event broadcast before its registration, and a
\* registration starts with an empty queue whatever was broadcast before.
C25_NoReplay ==
    /\ [](\A i \in DOMAIN handlers :
            /\ queue_of(client_queues, i) # 0
            /\ Len(received(i)) <= Len(published) - handlers[i].since
            /\ received(i) = SubSeq(published, handlers[i].since + 1,
                                    handlers[i].since + Len(received(i))))
    /\ [][ (Len(handlers') > Len(handlers))
           => (/\ handlers'[Len(handlers')].since = Len(published)
               /\ handlers'[Len(handlers')].sent = <<>>
               /\ client_queues'[Len(client_queues')].items = <<>>) ]_vars

\* A subscriber that registered after the first event was broadcast waits on an
\* empty queue with nothing sent to it, while the earlier subscriber has been
\* sent that event.
C25_Witness ==
    /\ Len(handlers) = 2
    /\ Len(published) = 1
    /\ handlers[1].sent = published
    /\ handlers[2].since = 1
    /\ handlers[2].open /\ handlers[2].pc = "get"
    /\ received(2) = <<>>

====
